---- MODULE Spec2Model ----
(***************************************************************************)
(* pipe-poll (src/src/main.rs): a future, PipeWriteListen, that is         *)
(* resolved by a worker thread which waits (epoll) for a named pipe to     *)
(* become readable, reads it to end-of-stream and stores the trimmed text, *)
(* and a driver that awaits the future in a spawned task while the calling *)
(* thread prints a heartbeat line every second.                            *)
(*                                                                         *)
(* Threads of control: the calling thread (Main.., Heartbeat..), the       *)
(* spawned task (Task.., Poll..), the worker thread (Worker..) and the     *)
(* external producer writing into the pipe (Writer..).                     *)
(*                                                                         *)
(* Panics: panic! and unwrap() unwind the thread or task they occur in     *)
(* (Rust's default panic strategy); a MutexGuard dropped while unwinding   *)
(* poisons the mutex.  Only process::exit and the return of main end the   *)
(* process.                                                                *)
(*                                                                         *)
(* Option<T> is modelled as a sequence of length 0 (None) or 1 (Some).     *)
(* A String is a sequence of one-character strings.                        *)
(***************************************************************************)
EXTENDS Integers, Sequences, FiniteSets, TLC

\* ---------------------------------------------------------------- bounds
\* longest content the producer writes
MaxLen == 3
\* number of heartbeat lines after which the model stops the heartbeat loop
MaxSeconds == 3

\* ------------------------------------------------------------- constants
\* the characters the producer may write
WhiteSpace == {" ", "\n"}
Chars == WhiteSpace \cup {"a", "b"}

\* argv of the process: program name, then the arguments
Prog == "pipe-poll"
Argvs == { <<Prog>>, <<Prog, "-h">>, <<Prog, "--help">>, <<Prog, "fifo">>,
           <<Prog, "fifo", "--help">> }

None == <<>>
Some(x) == <<x>>

RECURSIVE SeqsUpTo(_)
SeqsUpTo(n) ==
  IF n = 0 THEN {<<>>}
  ELSE LET shorter == SeqsUpTo(n - 1)
       IN shorter \cup {Append(s, c) : s \in {t \in shorter : Len(t) = n - 1}, c \in Chars}

Contents == SeqsUpTo(MaxLen)

\* ----------------------------------------------------------------- state
VARIABLES
  argv,        \* command line of the process
  written,     \* the whole content the producer is going to write
  status,      \* "running" | "exited"
  exitCode,    \* Option: exit code of the process
  mainPc,      \* position of the calling thread
  seconds,     \* heartbeat counter of the calling thread
  beats,       \* stdout: counters of the heartbeat lines printed, in order
  finalLines,  \* stdout: texts of the "Thread finished its job" lines printed
  stderr,      \* stderr: kinds of the messages printed, in order
  taskPc,      \* position of the spawned task
  taskValue,   \* Option: value the await returned to the task
  fileState,   \* "unopened" | "open" | "failed"  (File::open of the pipe)
  lock,        \* holder of the state mutex: "free" | "task" | "worker"
  poisoned,    \* the state mutex is poisoned
  waker,       \* PipeWriteListenState.waker
  complete,    \* PipeWriteListenState.complete
  content,     \* PipeWriteListenState.content
  workerPc,    \* position of the worker thread
  buf,         \* the worker's local buffer `buf`
  writerPc,    \* position of the producer: "idle"|"opening"|"open"|"closed"
  toWrite,     \* what the producer has still to write
  pipeBuf,     \* bytes in the pipe, written and not yet read
  polls,       \* number of calls of poll
  readys,      \* number of polls that returned Ready
  pendings,    \* number of polls that returned Pending
  takes,       \* number of times content.take() returned Some
  wakes        \* number of times the worker invoked a waker

vars == << argv, written, status, exitCode, mainPc, seconds, beats, finalLines,
           stderr, taskPc, taskValue, fileState, lock, poisoned, waker,
           complete, content, workerPc, buf, writerPc, toWrite, pipeBuf,
           polls, readys, pendings, takes, wakes >>

mainVars   == << mainPc, seconds, beats, stderr >>
procVars   == << status, exitCode >>
taskVars   == << taskPc, taskValue, finalLines >>
stateVars  == << waker, complete, content >>
mutexVars  == << lock, poisoned >>
workerVars == << workerPc, buf >>
pipeVars   == << writerPc, toWrite, pipeBuf >>
countVars  == << polls, readys, pendings, takes, wakes >>
envVars    == << argv, written >>

\* -------------------------------------------------------- pure functions
IsWhitespace(c) == c \in WhiteSpace

RECURSIVE TrimStart(_)
TrimStart(s) ==
  IF s = <<>> THEN <<>>
  ELSE IF IsWhitespace(Head(s)) THEN TrimStart(Tail(s)) ELSE s

RECURSIVE TrimEnd(_)
TrimEnd(s) ==
  IF s = <<>> THEN <<>>
  ELSE IF IsWhitespace(s[Len(s)]) THEN TrimEnd(SubSeq(s, 1, Len(s) - 1)) ELSE s

\* mutation of Trim: only the leading whitespace is removed (trim_start)
TrimStartOnly(s) == TrimStart(s)

\* str::trim
Trim(s) == TrimEnd(TrimStart(s))

\* mutation of ArgNth1: the program name is taken for the argument (nth(0))
ArgNth0(av) == Some(av[1])

\* env::args().nth(1)
ArgNth1(av) == IF Len(av) >= 2 THEN Some(av[2]) ELSE None

\* mutation of IsHelp: the long option is not recognised
IsHelpShortOnly(p) == p = "-h"

\* pipe == "-h" || pipe == "--help"
IsHelp(p) == p = "-h" \/ p = "--help"

\* mutation of NextSeconds: the counter is advanced twice per round
NextSecondsTwice(s) == s + 2

\* seconds += 1
NextSeconds(s) == s + 1

Running == status = "running"

Init ==
  /\ argv \in Argvs
  /\ written \in Contents
  /\ status = "running"
  /\ exitCode = None
  /\ mainPc = "args"
  /\ seconds = 0
  /\ beats = <<>>
  /\ finalLines = <<>>
  /\ stderr = <<>>
  /\ taskPc = "unspawned"
  /\ taskValue = None
  /\ fileState = "unopened"
  /\ lock = "free"
  /\ poisoned = FALSE
  /\ waker = None
  /\ complete = FALSE
  /\ content = None
  /\ workerPc = "unspawned"
  /\ buf = <<>>
  /\ writerPc = "idle"
  /\ toWrite = written
  /\ pipeBuf = <<>>
  /\ polls = 0
  /\ readys = 0
  /\ pendings = 0
  /\ takes = 0
  /\ wakes = 0

\* ------------------------------------------------------ the calling thread
\* env::args().nth(1).with_context(..)? : no argument, main returns Err
MainNoArg ==
  /\ Running /\ mainPc = "args"
  /\ ArgNth1(argv) = None
  /\ mainPc' = "return_err"
  /\ UNCHANGED << seconds, beats, stderr, procVars, taskVars, fileState,
                  stateVars, mutexVars, workerVars, pipeVars, countVars, envVars >>

\* main returned Err: the error (message and HELP) goes to stderr, exit code 1
MainReturnErr ==
  /\ Running /\ mainPc = "return_err"
  /\ stderr' = Append(stderr, "usage_error_and_help")
  /\ status' = "exited"
  /\ exitCode' = Some(1)
  /\ mainPc' = "done"
  /\ UNCHANGED << seconds, beats, taskVars, fileState, stateVars, mutexVars,
                  workerVars, pipeVars, countVars, envVars >>

\* eprintln!("{}", HELP)
MainHelp ==
  /\ Running /\ mainPc = "args"
  /\ ArgNth1(argv) # None
  /\ IsHelp(ArgNth1(argv)[1])
  /\ stderr' = Append(stderr, "help")
  /\ mainPc' = "help_exit"
  /\ UNCHANGED << seconds, beats, procVars, taskVars, fileState, stateVars,
                  mutexVars, workerVars, pipeVars, countVars, envVars >>

\* process::exit(1)
MainHelpExit ==
  /\ Running /\ mainPc = "help_exit"
  /\ status' = "exited"
  /\ exitCode' = Some(1)
  /\ mainPc' = "done"
  /\ UNCHANGED << seconds, beats, stderr, taskVars, fileState, stateVars,
                  mutexVars, workerVars, pipeVars, countVars, envVars >>

\* task::spawn(async move { .. }); let mut seconds = 0
MainSpawn ==
  /\ Running /\ mainPc = "args"
  /\ ArgNth1(argv) # None
  /\ ~IsHelp(ArgNth1(argv)[1])
  /\ taskPc' = "new"
  /\ seconds' = 0
  /\ mainPc' = "print"
  /\ UNCHANGED << beats, stderr, procVars, taskValue, finalLines, fileState,
                  stateVars, mutexVars, workerVars, pipeVars, countVars, envVars >>

\* println!("Waiting for the future to complete... it's been {} seconds")
HeartbeatPrint ==
  /\ Running /\ mainPc = "print"
  /\ seconds < MaxSeconds
  /\ beats' = Append(beats, seconds)
  /\ mainPc' = "sleep"
  /\ UNCHANGED << seconds, stderr, procVars, taskVars, fileState, stateVars,
                  mutexVars, workerVars, pipeVars, countVars, envVars >>

\* mutation of HeartbeatSleep: the loop ends after the sleep, main returns
\* Ok(()) and the process ends with exit code 0
HeartbeatSleepReturns ==
  /\ Running /\ mainPc = "sleep"
  /\ mainPc' = "done"
  /\ status' = "exited"
  /\ exitCode' = Some(0)
  /\ UNCHANGED << seconds, beats, stderr, taskVars, fileState, stateVars,
                  mutexVars, workerVars, pipeVars, countVars, envVars >>

\* thread::sleep(Duration::from_secs(1)); seconds += 1
HeartbeatSleep ==
  /\ Running /\ mainPc = "sleep"
  /\ seconds' = NextSeconds(seconds)
  /\ mainPc' = "print"
  /\ UNCHANGED << beats, stderr, procVars, taskVars, fileState, stateVars,
                  mutexVars, workerVars, pipeVars, countVars, envVars >>

MainStep ==
  \/ MainNoArg \/ MainReturnErr \/ MainHelp \/ MainHelpExit \/ MainSpawn
  \/ HeartbeatPrint \/ HeartbeatSleep

\* ------------------------------------------------------------ the producer
\* the producer calls open(2) on the FIFO for writing
WriterStartOpen ==
  /\ Running /\ writerPc = "idle"
  /\ writerPc' = "opening"
  /\ UNCHANGED << toWrite, pipeBuf, mainVars, procVars, taskVars, fileState,
                  stateVars, mutexVars, workerVars, countVars, envVars >>

\* its open returns once the read end is open
WriterOpened ==
  /\ Running /\ writerPc = "opening"
  /\ fileState = "open"
  /\ writerPc' = "open"
  /\ UNCHANGED << toWrite, pipeBuf, mainVars, procVars, taskVars, fileState,
                  stateVars, mutexVars, workerVars, countVars, envVars >>

\* one burst: the next k characters go into the pipe
WriterWrite ==
  /\ Running /\ writerPc = "open"
  /\ toWrite # <<>>
  /\ \E k \in 1..Len(toWrite) :
        /\ pipeBuf' = pipeBuf \o SubSeq(toWrite, 1, k)
        /\ toWrite' = SubSeq(toWrite, k + 1, Len(toWrite))
  /\ UNCHANGED << writerPc, mainVars, procVars, taskVars, fileState,
                  stateVars, mutexVars, workerVars, countVars, envVars >>

\* the producer closes the pipe after its last burst
WriterClose ==
  /\ Running /\ writerPc = "open"
  /\ toWrite = <<>>
  /\ writerPc' = "closed"
  /\ UNCHANGED << toWrite, pipeBuf, mainVars, procVars, taskVars, fileState,
                  stateVars, mutexVars, workerVars, countVars, envVars >>

WriterStep == WriterStartOpen \/ WriterOpened \/ WriterWrite \/ WriterClose

\* --------------------------------------------------------- the spawned task
\* PipeWriteListen::new: File::open(loc) on a FIFO returns once a writer
\* has it open (or is opening it)
TaskOpen ==
  /\ Running /\ taskPc = "new"
  /\ writerPc # "idle"
  /\ fileState' = "open"
  /\ taskPc' = "spawn_worker"
  /\ UNCHANGED << taskValue, finalLines, mainVars, procVars, stateVars,
                  mutexVars, workerVars, pipeVars, countVars, envVars >>

\* File::open(loc).unwrap() on Err: the task panics
TaskOpenFail ==
  /\ Running /\ taskPc = "new"
  /\ fileState' = "failed"
  /\ taskPc' = "panicked"
  /\ UNCHANGED << taskValue, finalLines, mainVars, procVars, stateVars,
                  mutexVars, workerVars, pipeVars, countVars, envVars >>

\* thread::spawn(move || ..); PipeWriteListen { state }; then .await
TaskSpawnWorker ==
  /\ Running /\ taskPc = "spawn_worker"
  /\ workerPc' = "lock"
  /\ taskPc' = "poll"
  /\ UNCHANGED << buf, taskValue, finalLines, mainVars, procVars, fileState,
                  stateVars, mutexVars, pipeVars, countVars, envVars >>

\* mutation of PollReturn: the task awaits the handle again after Ready
PollReturnAgain(ready) == IF ready THEN "poll" ELSE "suspended"

\* where the task goes when poll returns: Ready resumes it after the .await,
\* Pending suspends it
PollReturn(ready) == IF ready THEN "print" ELSE "suspended"

\* mutation of PollAcquire: a poisoned mutex is taken all the same
\* (lock().unwrap_or_else(|e| e.into_inner()))
PollAcquireIgnorePoison ==
  /\ Running /\ taskPc = "poll"
  /\ lock = "free"
  /\ polls' = polls + 1
  /\ taskPc' = "polling"
  /\ lock' = "task"
  /\ UNCHANGED << poisoned, taskValue, finalLines, mainVars, procVars,
                  fileState, stateVars, workerVars, pipeVars, readys,
                  pendings, takes, wakes, envVars >>

\* poll: self.state.lock().unwrap() -- blocks while the mutex is held;
\* a poisoned mutex makes unwrap panic (the guard is dropped again)
PollAcquire ==
  /\ Running /\ taskPc = "poll"
  /\ lock = "free"
  /\ polls' = polls + 1
  /\ IF poisoned
       THEN /\ taskPc' = "panicked"
            /\ lock' = lock
       ELSE /\ taskPc' = "polling"
            /\ lock' = "task"
  /\ UNCHANGED << poisoned, taskValue, finalLines, mainVars, procVars,
                  fileState, stateVars, workerVars, pipeVars, readys,
                  pendings, takes, wakes, envVars >>

\* poll, complete branch: content.take() and Poll::Ready(ct), or
\* unreachable!() (a panic with the guard held); the guard is dropped
PollReady ==
  /\ Running /\ taskPc = "polling"
  /\ complete
  /\ IF content # None
       THEN /\ taskValue' = content
            /\ content' = None
            /\ takes' = takes + 1
            /\ readys' = readys + 1
            /\ taskPc' = PollReturn(TRUE)
            /\ poisoned' = poisoned
       ELSE /\ taskPc' = "panicked"
            /\ poisoned' = TRUE
            /\ UNCHANGED << taskValue, content, takes, readys >>
  /\ lock' = "free"
  /\ UNCHANGED << waker, complete, finalLines, mainVars, procVars, fileState,
                  workerVars, pipeVars, polls, pendings, wakes, envVars >>

\* the waker of the polling task: cx.waker().clone()
CxWaker == Some("task")

\* mutation of PollPending: the waker is not registered
PollPendingNoWaker ==
  /\ Running /\ taskPc = "polling"
  /\ ~complete
  /\ pendings' = pendings + 1
  /\ taskPc' = PollReturn(FALSE)
  /\ lock' = "free"
  /\ UNCHANGED << poisoned, stateVars, taskValue, finalLines, mainVars,
                  procVars, fileState, workerVars, pipeVars, polls, readys,
                  takes, wakes, envVars >>

\* poll, else branch: state.waker = Some(cx.waker().clone()); Poll::Pending
PollPending ==
  /\ Running /\ taskPc = "polling"
  /\ ~complete
  /\ waker' = CxWaker
  /\ pendings' = pendings + 1
  /\ taskPc' = PollReturn(FALSE)
  /\ lock' = "free"
  /\ UNCHANGED << poisoned, complete, content, taskValue, finalLines, mainVars,
                  procVars, fileState, workerVars, pipeVars, polls, readys,
                  takes, wakes, envVars >>

\* println!("Thread finished its job with: {}!", written)
TaskPrint ==
  /\ Running /\ taskPc = "print"
  /\ finalLines' = Append(finalLines, taskValue[1])
  /\ taskPc' = "exit"
  /\ UNCHANGED << taskValue, mainVars, procVars, fileState, stateVars,
                  mutexVars, workerVars, pipeVars, countVars, envVars >>

\* process::exit(0)
TaskExit ==
  /\ Running /\ taskPc = "exit"
  /\ status' = "exited"
  /\ exitCode' = Some(0)
  /\ taskPc' = "done"
  /\ UNCHANGED << taskValue, finalLines, mainVars, fileState, stateVars,
                  mutexVars, workerVars, pipeVars, countVars, envVars >>

TaskStep ==
  \/ TaskOpen \/ TaskSpawnWorker \/ PollAcquire \/ PollReady \/ PollPending
  \/ TaskPrint \/ TaskExit

\* mutation of WorkerLock: the worker goes on without holding the guard
WorkerLockNotHeld ==
  /\ Running /\ workerPc = "lock"
  /\ lock = "free"
  /\ workerPc' = IF poisoned THEN "panicked" ELSE "epoll_create1"
  /\ UNCHANGED << mutexVars, buf, mainVars, procVars, taskVars, fileState,
                  stateVars, pipeVars, countVars, envVars >>

\* -------------------------------------------------------- the worker thread
\* thread_state.lock().unwrap()
WorkerLock ==
  /\ Running /\ workerPc = "lock"
  /\ lock = "free"
  /\ IF poisoned
       THEN /\ workerPc' = "panicked"
            /\ lock' = lock
       ELSE /\ workerPc' = "epoll_create1"
            /\ lock' = "worker"
  /\ UNCHANGED << poisoned, buf, mainVars, procVars, taskVars, fileState,
                  stateVars, pipeVars, countVars, envVars >>

\* handle_errno!(epoll_create1(O_CLOEXEC)) returned a descriptor
WorkerEpollCreate ==
  /\ Running /\ workerPc = "epoll_create1"
  /\ workerPc' = "epoll_ctl"
  /\ UNCHANGED << buf, mainVars, procVars, taskVars, fileState, stateVars,
                  mutexVars, pipeVars, countVars, envVars >>

\* handle_errno!(epoll_ctl(epoll_fd, EPOLL_CTL_ADD, fd, &mut event)) returned 0
WorkerEpollCtl ==
  /\ Running /\ workerPc = "epoll_ctl"
  /\ workerPc' = "epoll_wait"
  /\ UNCHANGED << buf, mainVars, procVars, taskVars, fileState, stateVars,
                  mutexVars, pipeVars, countVars, envVars >>

\* the read end is readable (EPOLLIN) or every writer has closed (EPOLLHUP)
PipeReady == pipeBuf # <<>> \/ writerPc = "closed"

\* handle_errno!(epoll_wait(epoll_fd, .., MAX_EVENTS, -1)) returned an event
WorkerEpollWait ==
  /\ Running /\ workerPc = "epoll_wait"
  /\ PipeReady
  /\ workerPc' = "set_complete"
  /\ UNCHANGED << buf, mainVars, procVars, taskVars, fileState, stateVars,
                  mutexVars, pipeVars, countVars, envVars >>

\* mutation of WorkerSetComplete: the completion flag is not set
WorkerSetCompleteForgets ==
  /\ Running /\ workerPc = "set_complete"
  /\ buf' = <<>>
  /\ workerPc' = "read"
  /\ UNCHANGED << stateVars, mainVars, procVars, taskVars, fileState,
                  mutexVars, pipeVars, countVars, envVars >>

\* let mut buf = String::new(); thread_state.complete = true
WorkerSetComplete ==
  /\ Running /\ workerPc = "set_complete"
  /\ complete' = TRUE
  /\ buf' = <<>>
  /\ workerPc' = "read"
  /\ UNCHANGED << waker, content, mainVars, procVars, taskVars, fileState,
                  mutexVars, pipeVars, countVars, envVars >>

\* read_to_string: one read(2) that returns the bytes in the pipe
WorkerRead ==
  /\ Running /\ workerPc = "read"
  /\ pipeBuf # <<>>
  /\ buf' = buf \o pipeBuf
  /\ pipeBuf' = <<>>
  /\ UNCHANGED << workerPc, writerPc, toWrite, mainVars, procVars, taskVars,
                  fileState, stateVars, mutexVars, countVars, envVars >>

\* mutation of WorkerReadEof: the read ends when the pipe is empty, whether
\* or not the writer has closed (one read instead of a drain)
WorkerReadEofNoDrain ==
  /\ Running /\ workerPc = "read"
  /\ pipeBuf = <<>>
  /\ workerPc' = "store"
  /\ UNCHANGED << buf, mainVars, procVars, taskVars, fileState, stateVars,
                  mutexVars, pipeVars, countVars, envVars >>

\* read_to_string: read(2) returns 0, the pipe is empty and the writer closed
WorkerReadEof ==
  /\ Running /\ workerPc = "read"
  /\ pipeBuf = <<>>
  /\ writerPc = "closed"
  /\ workerPc' = "store"
  /\ UNCHANGED << buf, mainVars, procVars, taskVars, fileState, stateVars,
                  mutexVars, pipeVars, countVars, envVars >>

\* thread_state.content = Some(buf.trim().to_string())
WorkerStore ==
  /\ Running /\ workerPc = "store"
  /\ content' = Some(Trim(buf))
  /\ workerPc' = "wake"
  /\ UNCHANGED << waker, complete, buf, mainVars, procVars, taskVars,
                  fileState, mutexVars, pipeVars, countVars, envVars >>

\* mutation of WakeTask: the wake is lost
WakeTaskLost(pc) == pc

\* waker.wake(): the scheduler makes the suspended task runnable again
WakeTask(pc) == IF pc = "suspended" THEN "poll" ELSE pc

\* mutation of WorkerWake: the waker is invoked through a clone and stays
\* in the slot
WorkerWakeKeepsSlot ==
  /\ Running /\ workerPc = "wake"
  /\ IF waker # None
       THEN /\ taskPc' = WakeTask(taskPc)
            /\ wakes' = wakes + 1
       ELSE UNCHANGED << taskPc, wakes >>
  /\ workerPc' = "unlock"
  /\ UNCHANGED << stateVars, buf, taskValue, finalLines, mainVars,
                  procVars, fileState, mutexVars, pipeVars, polls, readys,
                  pendings, takes, envVars >>

\* if let Some(waker) = thread_state.waker.take() { waker.wake() }
WorkerWake ==
  /\ Running /\ workerPc = "wake"
  /\ IF waker # None
       THEN /\ taskPc' = WakeTask(taskPc)
            /\ wakes' = wakes + 1
       ELSE UNCHANGED << taskPc, wakes >>
  /\ waker' = None
  /\ workerPc' = "unlock"
  /\ UNCHANGED << complete, content, buf, taskValue, finalLines, mainVars,
                  procVars, fileState, mutexVars, pipeVars, polls, readys,
                  pendings, takes, envVars >>

\* end of the closure: the guard thread_state is dropped, the thread ends
WorkerUnlock ==
  /\ Running /\ workerPc = "unlock"
  /\ lock' = "free"
  /\ workerPc' = "done"
  /\ UNCHANGED << poisoned, buf, mainVars, procVars, taskVars, fileState,
                  stateVars, pipeVars, countVars, envVars >>

\* the calls of the worker that can fail: the three handle_errno! calls and
\* read_to_string(..).unwrap()
WorkerOsCalls == {"epoll_create1", "epoll_ctl", "epoll_wait", "read"}

\* mutation of WorkerFail: the failing worker resets the completion flag
WorkerFailResets ==
  /\ Running /\ workerPc \in WorkerOsCalls
  /\ workerPc' = "panicked"
  /\ poisoned' = TRUE
  /\ lock' = "free"
  /\ complete' = FALSE
  /\ UNCHANGED << waker, content, buf, mainVars, procVars, taskVars,
                  fileState, pipeVars, countVars, envVars >>

\* mutation of WorkerFail: an error of read_to_string is ignored and the
\* worker goes on with what it has read (no unwrap)
WorkerFailReadIgnored ==
  /\ Running /\ workerPc \in WorkerOsCalls
  /\ IF workerPc = "read"
       THEN /\ workerPc' = "store"
            /\ UNCHANGED << poisoned, lock >>
       ELSE /\ workerPc' = "panicked"
            /\ poisoned' = TRUE
            /\ lock' = "free"
  /\ UNCHANGED << buf, mainVars, procVars, taskVars, fileState, stateVars,
                  pipeVars, countVars, envVars >>

\* a call returned -1 (panic! in handle_errno!) or read_to_string returned
\* Err (unwrap): the worker unwinds, its guard is dropped and poisons the mutex
WorkerFail ==
  /\ Running /\ workerPc \in WorkerOsCalls
  /\ workerPc' = "panicked"
  /\ poisoned' = TRUE
  /\ lock' = "free"
  /\ UNCHANGED << buf, mainVars, procVars, taskVars, fileState, stateVars,
                  pipeVars, countVars, envVars >>

WorkerStep ==
  \/ WorkerLock \/ WorkerEpollCreate \/ WorkerEpollCtl \/ WorkerEpollWait
  \/ WorkerSetComplete \/ WorkerRead \/ WorkerReadEof \/ WorkerStore
  \/ WorkerWake \/ WorkerUnlock

\* ------------------------------------------------------------ specification
Next ==
  \/ MainNoArg \/ MainReturnErr \/ MainHelp \/ MainHelpExit \/ MainSpawn
  \/ HeartbeatPrint \/ HeartbeatSleep
  \/ WriterStartOpen \/ WriterOpened \/ WriterWrite \/ WriterClose
  \/ TaskOpen \/ TaskOpenFail \/ TaskSpawnWorker
  \/ PollAcquire \/ PollReady \/ PollPending \/ TaskPrint \/ TaskExit
  \/ WorkerLock \/ WorkerEpollCreate \/ WorkerEpollCtl \/ WorkerEpollWait
  \/ WorkerSetComplete \/ WorkerRead \/ WorkerReadEof \/ WorkerStore
  \/ WorkerWake \/ WorkerUnlock \/ WorkerFail

Spec == Init /\ [][Next]_vars

\* Fair scheduling: the calling thread, the task, the worker and the producer
\* each take their next step when it stays possible.  No failure is forced:
\* TaskOpenFail and WorkerFail are under no fairness condition.
LiveSpec ==
  /\ Init /\ [][Next]_vars
  /\ WF_vars(MainStep) /\ WF_vars(TaskStep)
  /\ WF_vars(WorkerStep) /\ WF_vars(WriterStep)

\* Only the calling thread is scheduled fairly: the task, the worker and the
\* producer may stop anywhere.
HeartbeatSpec == Init /\ [][Next]_vars /\ WF_vars(MainStep)

TypeOK ==
  /\ argv \in Argvs
  /\ written \in Contents
  /\ status \in {"running", "exited"}
  /\ exitCode \in {None, Some(0), Some(1)}
  /\ mainPc \in {"args", "return_err", "help_exit", "print", "sleep", "done"}
  /\ seconds \in 0..MaxSeconds
  /\ taskPc \in {"unspawned", "new", "spawn_worker", "poll", "polling",
                 "suspended", "print", "exit", "done", "panicked"}
  /\ fileState \in {"unopened", "open", "failed"}
  /\ lock \in {"free", "task", "worker"}
  /\ poisoned \in BOOLEAN
  /\ waker \in {None, CxWaker}
  /\ complete \in BOOLEAN
  /\ Len(content) <= 1
  /\ workerPc \in {"unspawned", "lock", "epoll_create1", "epoll_ctl",
                   "epoll_wait", "set_complete", "read", "store", "wake",
                   "unlock", "done", "panicked"}
  /\ writerPc \in {"idle", "opening", "open", "closed"}

\* =================================================================== claims

\* v is c without its leading and trailing whitespace: c splits into a run
\* of whitespace, v, and a run of whitespace, and v neither starts nor ends
\* with whitespace
IsTrimOf(v, c) ==
  \E i \in 0..Len(c) : \E j \in i..Len(c) :
    /\ v = SubSeq(c, i + 1, j)
    /\ \A k \in 1..i : IsWhitespace(c[k])
    /\ \A k \in (j + 1)..Len(c) : IsWhitespace(c[k])
    /\ v # <<>> => ~IsWhitespace(v[1]) /\ ~IsWhitespace(v[Len(v)])

\* C1: whenever poll has returned Ready, the producer has written all of its
\* content C and closed the pipe, the value returned is C without leading and
\* trailing whitespace and otherwise unchanged, and every content line the
\* task printed carries that same value.
C1_TrimmedDelivery ==
  /\ taskValue # None =>
       /\ writerPc = "closed" /\ toWrite = <<>>
       /\ IsTrimOf(taskValue[1], written)
  /\ \A i \in 1..Len(finalLines) :
       taskValue # None /\ finalLines[i] = taskValue[1]

\* a content with whitespace at both ends was delivered and printed trimmed
C1_Witness ==
  /\ finalLines # <<>>
  /\ finalLines[1] # <<>>
  /\ IsWhitespace(written[1])
  /\ IsWhitespace(written[Len(written)])
  /\ Len(finalLines[1]) = Len(written) - 2

\* C2: at most one poll returns Ready, the content is taken out of the shared
\* state at most once, and once a poll has returned Ready no further poll is
\* issued.
C2_ExactlyOnce ==
  [][ /\ readys' <= 1
      /\ takes' <= 1
      /\ readys >= 1 => polls' = polls ]_vars

\* a run in which the task was suspended, woken, polled again and got Ready,
\* and the process has exited
C2_Witness ==
  /\ status = "exited"
  /\ pendings = 1 /\ polls = 2
  /\ readys = 1 /\ takes = 1

\* C3: once the task has printed the content line, the calling thread prints
\* no further heartbeat line.
C3_NoBeatAfterFinal ==
  [][ finalLines # <<>> => beats' = beats ]_vars

C5_FailureIsFatal ==
  [][ (fileState = "failed" \/ workerPc = "panicked") => beats' = beats ]_vars

\* the first argument is a path: neither missing nor a help option
ValidPath == Len(argv) >= 2 /\ argv[2] \notin {"-h", "--help"}

\* C6: on the valid-path flow the process ends only by the task's exit call,
\* with code 0, after exactly one content line carrying the captured text;
\* the calling thread never leaves its heartbeat loop; exit code 0 is never
\* produced without the content captured and printed.
C6_ExitOnlyByTask ==
  /\ ValidPath =>
       /\ status = "exited" => exitCode = Some(0) /\ taskPc = "done"
       /\ mainPc \in {"args", "print", "sleep"}
       /\ Len(finalLines) <= 1
  /\ exitCode = Some(0) =>
       /\ ValidPath
       /\ complete /\ workerPc \in {"wake", "unlock", "done"}
       /\ taskValue # None
       /\ finalLines = << taskValue[1] >>

\* the process has exited with code 0 after heartbeat lines and the content
\* line
C6_Witness ==
  /\ ValidPath
  /\ exitCode = Some(0)
  /\ beats # <<>>
  /\ Len(finalLines) = 1

\* C7: with -h or --help as first argument, no pipe is opened, no worker and
\* no task is spawned, no heartbeat or content line is printed, nothing but
\* the help block is printed, and the process exits with code 1 after the
\* help block.
C7_Help ==
  (Len(argv) >= 2 /\ argv[2] \in {"-h", "--help"}) =>
     /\ fileState = "unopened"
     /\ taskPc = "unspawned" /\ workerPc = "unspawned"
     /\ beats = <<>> /\ finalLines = <<>>
     /\ stderr \in { <<>>, <<"help">> }
     /\ status = "exited" => exitCode = Some(1) /\ stderr = <<"help">>

\* the process was started with --help and has exited
C7_Witness ==
  /\ argv = <<Prog, "--help">>
  /\ status = "exited"
  /\ stderr = <<"help">>

\* C8: without an argument, no pipe is opened, no worker and no task is
\* spawned, no heartbeat or content line is printed, and the process ends
\* with code 1 after the usage error with the help block.
C8_NoArgument ==
  (Len(argv) < 2) =>
     /\ fileState = "unopened"
     /\ taskPc = "unspawned" /\ workerPc = "unspawned"
     /\ beats = <<>> /\ finalLines = <<>>
     /\ stderr \in { <<>>, <<"usage_error_and_help">> }
     /\ status = "exited" =>
          exitCode = Some(1) /\ stderr = <<"usage_error_and_help">>

\* the process was started without an argument and has ended
C8_Witness ==
  /\ argv = <<Prog>>
  /\ status = "exited"
  /\ stderr = <<"usage_error_and_help">>

\* C9: the heartbeat counters printed are 0, 1, 2, ... in this order, and
\* with only the calling thread scheduled fairly the heartbeat loop goes on
\* (up to the bound of the model) until the process exits, wherever the
\* task, the worker and the producer are.
C9_Heartbeat ==
  /\ [](\A i \in 1..Len(beats) : beats[i] = i - 1)
  /\ [](mainPc \in {"print", "sleep"} =>
          <>(status = "exited" \/ Len(beats) = MaxSeconds))

\* heartbeat lines 0 and 1 were printed while the task is blocked on the
\* state lock held by the worker
C9_Witness ==
  /\ Len(beats) >= 2
  /\ beats[Len(beats)] = Len(beats) - 1
  /\ taskPc = "poll" /\ lock = "worker"
  /\ status = "running"

\* C10: the result is present if and only if completion is true and the
\* result has not been taken.
C10_ResultIffComplete ==
  (content # None) <=> (complete /\ takes = 0)

\* C11: a poll that holds the state lock and finds completion true finds the
\* result present; the unreachable!() branch of poll is never taken.
C11_UnreachableNeverReached ==
  /\ [](taskPc = "polling" /\ complete => content # None)
  /\ [][ taskPc = "polling" => taskPc' # "panicked" ]_vars

\* a poll holds the lock, completion is true and the result is present
C11_Witness ==
  /\ taskPc = "polling"
  /\ complete
  /\ content # None

\* C12: the completion flag starts false; it changes only from false to true,
\* in the worker's step complete = true, taken while the worker holds the
\* state lock; the worker takes that step with the flag still false; no
\* step of poll changes the flag.
C12_CompleteSetOnce ==
  /\ ~complete
  /\ [][ /\ complete' # complete =>
              /\ ~complete /\ complete'
              /\ workerPc = "set_complete" /\ workerPc' = "read"
              /\ lock = "worker" /\ lock' = "worker"
         /\ (workerPc = "set_complete" /\ workerPc' = "read") => ~complete
         /\ taskPc' # taskPc => complete' = complete ]_vars

\* the flag is true after a failed read: it was set and is not reset
C12_Witness ==
  /\ complete
  /\ workerPc = "panicked"

\* the steps of the worker between taking the guard and dropping it
WorkerCritical ==
  {"epoll_create1", "epoll_ctl", "epoll_wait", "set_complete", "read",
   "store", "wake", "unlock"}

\* C13: the worker holds the state lock from before the readiness wait until
\* after the wake step; while it does, no poll is inside its body; every
\* body of poll runs with the lock held by the task, before the worker has
\* taken the lock or after the worker has released it; the shared state
\* changes only in a step of the holder of the lock.
C13_MutualExclusion ==
  /\ [](workerPc \in WorkerCritical => lock = "worker" /\ taskPc # "polling")
  /\ [](taskPc = "polling" =>
          lock = "task" /\ workerPc \in {"lock", "done", "panicked"})
  /\ [][ << waker, complete, content >>' # << waker, complete, content >> =>
           \/ lock = "worker" /\ workerPc' # workerPc
           \/ lock = "task" /\ taskPc' # taskPc ]_vars

\* the task waits for the lock while the worker is reading
C13_Witness ==
  /\ taskPc = "poll"
  /\ workerPc = "read"
  /\ lock = "worker"
  /\ buf # <<>>

\* C14: the wake step comes after the result is stored; it leaves the slot
\* absent and invokes the continuation once if one was present, none
\* otherwise; the worker invokes a continuation in no other step and at most
\* once in a run; the slot is absent when the worker drops its guard at the
\* end of its sequence.
C14_WakeStep ==
  /\ [](wakes <= 1)
  /\ [](workerPc \in {"unlock", "done"} => waker = None)
  /\ [][ /\ (workerPc = "wake" /\ workerPc' # "wake") =>
              /\ content # None
              /\ waker' = None
              /\ wakes' = wakes + (IF waker # None THEN 1 ELSE 0)
              /\ waker # None => taskPc = "suspended" /\ taskPc' = "poll"
              /\ waker = None => taskPc' = taskPc
         /\ wakes' # wakes => workerPc = "wake" ]_vars

\* the worker has taken and invoked the continuation and is about to drop
\* its guard
C14_Witness ==
  /\ workerPc = "unlock"
  /\ wakes = 1
  /\ waker = None
  /\ taskPc = "poll"

\* C15: a poll that finds completion false stores the caller's continuation
\* in the slot, returns not-ready (the task is suspended) and leaves the
\* completion flag, the result, the descriptor and the pipe unchanged; a
\* poll that finds completion true leaves the slot unchanged.
C15_PollFrame ==
  [][ (taskPc = "polling" /\ taskPc' # "polling") =>
        IF ~complete
          THEN /\ waker' = CxWaker
               /\ taskPc' = "suspended"
               /\ pendings' = pendings + 1 /\ readys' = readys
               /\ UNCHANGED << complete, content, fileState, pipeVars >>
          ELSE waker' = waker ]_vars

\* a poll has found completion false: the continuation is stored and the
\* task is suspended
C15_Witness ==
  /\ taskPc = "suspended"
  /\ pendings = 1
  /\ waker = CxWaker
  /\ ~complete /\ content = None

\* the order of the worker's steps, a failure ending the sequence
WorkerOrder ==
  { <<"unspawned", "lock">>, <<"lock", "epoll_create1">>,
    <<"epoll_create1", "epoll_ctl">>, <<"epoll_ctl", "epoll_wait">>,
    <<"epoll_wait", "set_complete">>, <<"set_complete", "read">>,
    <<"read", "store">>, <<"store", "wake">>, <<"wake", "unlock">>,
    <<"unlock", "done">> }
  \cup { <<pc, "panicked">> : pc \in WorkerOsCalls \cup {"lock"} }

\* C16: the worker goes through lock, readiness wait, read, store, wake,
\* unlock in this order; it leaves the readiness wait only with the pipe
\* readable or closed by the writer; bytes are read only in the read
\* step; the result is stored only after the read has reached end-of-stream,
\* the writer having closed and all of its content having been read; a
\* continuation is invoked only with the result stored.
C16_WorkerOrder ==
  /\ [](content # None =>
          /\ writerPc = "closed" /\ toWrite = <<>> /\ pipeBuf = <<>>
          /\ buf = written)
  /\ [][ /\ workerPc' # workerPc => << workerPc, workerPc' >> \in WorkerOrder
         /\ (workerPc = "epoll_wait" /\ workerPc' = "set_complete") =>
              pipeBuf # <<>> \/ writerPc = "closed"
         /\ Len(pipeBuf') < Len(pipeBuf) => workerPc = "read" /\ lock = "worker"
         /\ (workerPc = "read" /\ workerPc' = "store") =>
              writerPc = "closed" /\ pipeBuf = <<>>
         /\ content' # content /\ content' # None => workerPc = "store"
         /\ wakes' # wakes => content # None ]_vars

\* the worker has gone through its whole sequence for a content of two or
\* more characters, and has invoked the continuation
C16_Witness ==
  /\ workerPc = "done"
  /\ wakes = 1
  /\ Len(written) >= 2
  /\ buf = written

\* the worker has taken the state lock before any poll ran its body
WorkerFirst == workerPc \notin {"unspawned", "lock"} /\ pendings = 0

C18_PollAfterWake ==
  /\ [](pendings <= 1 /\ polls <= 2)
  /\ [](wakes = 1 /\ taskPc = "polling" =>
          workerPc = "done" /\ complete /\ content # None)
  /\ [](wakes = 1 => taskPc # "panicked" /\ taskPc # "suspended")
  /\ [][ (wakes = 1 /\ taskPc = "polling" /\ taskPc' # "polling") =>
           readys' = 1 /\ pendings' = pendings ]_vars
  /\ (wakes = 1) ~> (readys = 1 /\ polls = 2)

\* the woken task has polled a second time and got Ready
C18_Witness ==
  /\ taskPc = "print"
  /\ wakes = 1
  /\ pendings = 1 /\ polls = 2 /\ readys = 1

\* C19: once the worker has failed, no poll has returned or returns Ready,
\* nothing is delivered or printed and the process does not exit with code
\* 0; whatever is delivered is the trimmed whole content, taken after the
\* worker has finished its sequence, never a partial or empty read.
C19_WorkerFailure ==
  /\ [](workerPc = "panicked" =>
          /\ readys = 0 /\ takes = 0
          /\ content = None /\ taskValue = None
          /\ finalLines = <<>>
          /\ exitCode # Some(0)
          /\ taskPc \notin {"polling", "print", "exit", "done"})
  /\ [](taskValue # None =>
          /\ workerPc = "done" /\ buf = written
          /\ \A i \in 1..Len(finalLines) : finalLines[i] = taskValue[1])
  /\ [][ workerPc = "panicked" => readys' = 0 /\ finalLines' = <<>> ]_vars

\* the read failed after complete = true and after part of the content was
\* read; the poll that followed ended in a panic on the poisoned lock
C19_Witness ==
  /\ workerPc = "panicked"
  /\ complete
  /\ buf # <<>>
  /\ polls >= 1 /\ taskPc = "panicked"
  /\ readys = 0

====
